---- MODULE Spec2Model ----
(***************************************************************************)
(* Chat widget controller of Videojuego-chatbot: the submit handler, the   *)
(* message renderer and the Markdown-to-HTML transform, in the three       *)
(* variants the repository ships:                                          *)
(*   "escape"   src/static/app.js      (bot text escaped)                  *)
(*   "markdown" src/unnamed/part_000   (bot text through markdownToHtml)   *)
(*   "legacy"   src/unnamed/part_001   (template strings into innerHTML)   *)
(* A text is a sequence of tokens.  The Markdown syntax characters "#",    *)
(* "*", " " and "\n" are one token each; a run of other characters that no *)
(* pattern of the code can split ("a", "<img>", "&", a fixed message) is   *)
(* one token.                                                              *)
(***************************************************************************)
EXTENDS Naturals, Sequences, FiniteSets

VARIABLES
  variant,        \* which of the three files is loaded in the page
  inputValue,     \* input.value
  inputDisabled,  \* input.disabled
  inputFocused,   \* document.activeElement = input
  btnLabel,       \* submitBtn.textContent
  history,        \* the module-scoped history array
  chatBox,        \* children of #chat-box, in order
  tasks,          \* one record per handler run that passed the guard
  ev,             \* the last thing the handler did (observation only)
  mdIn,           \* argument of a stand-alone markdownToHtml call
  mdOut,          \* its result
  mdPc            \* "in" before the call, "out" after it

vars == <<variant, inputValue, inputDisabled, inputFocused, btnLabel, history,
          chatBox, tasks, ev, mdIn, mdOut, mdPc>>

widgetVars == <<variant, inputValue, inputDisabled, inputFocused, btnLabel,
                history, chatBox, tasks, ev>>

mdVars == <<mdIn, mdOut, mdPc>>

(***************************************************************************)
(* Bounds                                                                  *)
(***************************************************************************)
MaxSubmit == 2      \* submits that pass the guard in one run of the page
MaxMdLines == 4     \* lines of a stand-alone markdownToHtml argument

(***************************************************************************)
(* JavaScript values that cross the wire: a string or undefined            *)
(***************************************************************************)
Str(s) == [t |-> "str", v |-> s]

Undefined == [t |-> "undef", v |-> <<>>]

\* `${x}` : a string as it is, undefined as the word "undefined"
TemplateString(x) == IF x.t = "str" THEN x.v ELSE <<"undefined">>

\* x ?? fallback : only undefined gives way to the fallback
OrElseNullish(x, fallback) == IF x.t = "str" THEN x ELSE Str(fallback)

\* x || fallback : undefined and "" are falsy
OrElse(x, fallback) == IF x.t = "str" /\ x.v # <<>> THEN x ELSE Str(fallback)

(***************************************************************************)
(* Text helpers                                                            *)
(***************************************************************************)
IsSpace(c) == c \in {" ", "\n"}

Min(S) == CHOOSE x \in S : \A y \in S : x <= y

Max(S) == CHOOSE x \in S : \A y \in S : x >= y

RECURSIVE TrimStart(_)
TrimStart(s) == IF s # <<>> /\ IsSpace(Head(s)) THEN TrimStart(Tail(s)) ELSE s

RECURSIVE TrimEnd(_)
TrimEnd(s) ==
  IF s # <<>> /\ IsSpace(s[Len(s)]) THEN TrimEnd(SubSeq(s, 1, Len(s) - 1)) ELSE s

\* the guard tests the raw value
trimMissing(s) == s

\* String.prototype.trim
trim(s) == TrimEnd(TrimStart(s))

\* what the serializer makes of one token of a text node
EscapeToken(c) ==
  CASE c = "<img>" -> "&lt;img&gt;"
    [] c = "&" -> "&amp;"
    [] OTHER -> c

\* div.textContent = text; return div.innerHTML
escapeHtml(text) == [i \in 1..Len(text) |-> EscapeToken(text[i])]

\* node.textContent = x : undefined is stored as the empty string
TextContent(x) == IF x.t = "str" THEN x.v ELSE <<>>

(***************************************************************************)
(* markdownToHtml: nine replace passes, each over the result of the one    *)
(* before it.  Every pass scans left to right from index i and resumes     *)
(* after the end of a match.                                               *)
(***************************************************************************)
\* first index >= i that holds no white space (Len(s) + 1 if none): \s+
SkipSpace(s, i) ==
  Min({j \in i..(Len(s) + 1) : j = Len(s) + 1 \/ ~IsSpace(s[j])})

\* first index >= i that holds a line feed (Len(s) + 1 if none): (.*?)(\n|$)
LineEnd(s, i) ==
  Min({k \in i..(Len(s) + 1) : k = Len(s) + 1 \/ s[k] = "\n"})

\* .replace(/###\s+(.*?)(\n|$)/g, '<h3>$1</h3>')
RECURSIVE Headings(_, _)
Headings(s, i) ==
  IF i > Len(s) THEN <<>>
  ELSE IF /\ i + 3 <= Len(s)
          /\ s[i] = "#" /\ s[i + 1] = "#" /\ s[i + 2] = "#"
          /\ IsSpace(s[i + 3])
       THEN LET j == SkipSpace(s, i + 3)
                k == LineEnd(s, j)
                last == IF k <= Len(s) THEN k ELSE Len(s)
            IN  <<"<h3>">> \o SubSeq(s, j, k - 1) \o <<"</h3>">>
                  \o Headings(s, last + 1)
       ELSE <<s[i]>> \o Headings(s, i + 1)

\* .replace(/\*\*(.*?)\*\*/g, '<strong>$1</strong>')
RECURSIVE Bold(_, _)
Bold(s, i) ==
  IF i > Len(s) THEN <<>>
  ELSE LET closers == IF i + 1 <= Len(s) /\ s[i] = "*" /\ s[i + 1] = "*"
                      THEN {j \in (i + 2)..(Len(s) - 1) :
                              /\ s[j] = "*" /\ s[j + 1] = "*"
                              /\ \A k \in (i + 2)..(j - 1) : s[k] # "\n"}
                      ELSE {}
       IN  IF closers # {}
           THEN LET j == Min(closers)
                IN  <<"<strong>">> \o SubSeq(s, i + 2, j - 1) \o <<"</strong>">>
                      \o Bold(s, j + 2)
           ELSE <<s[i]>> \o Bold(s, i + 1)

\* ^ under the m flag: the start of the text or just after a line feed
AtLineStart(s, i) == i = 1 \/ s[i - 1] = "\n"

\* .replace(/^\*\s+(.*?)(\n|$)/gm, '<li>$1</li>')
RECURSIVE ListItems(_, _)
ListItems(s, i) ==
  IF i > Len(s) THEN <<>>
  ELSE IF /\ AtLineStart(s, i)
          /\ i + 1 <= Len(s)
          /\ s[i] = "*"
          /\ IsSpace(s[i + 1])
       THEN LET j == SkipSpace(s, i + 1)
                k == LineEnd(s, j)
                last == IF k <= Len(s) THEN k ELSE Len(s)
            IN  <<"<li>">> \o SubSeq(s, j, k - 1) \o <<"</li>">>
                  \o ListItems(s, last + 1)
       ELSE <<s[i]>> \o ListItems(s, i + 1)

\* .replace(/(<li>.*<\/li>)+/gs, '<ul>$&</ul>') : under the s flag the greedy
\* .* runs from the first <li> to the last </li> of the whole text
ListWrap(s) ==
  LET closes == {b \in 1..Len(s) : s[b] = "</li>"}
      opens == {a \in 1..Len(s) : s[a] = "<li>" /\ \E b \in closes : b > a}
  IN  IF opens = {} THEN s
      ELSE LET a == Min(opens)
               b == Max(closes)
           IN  SubSeq(s, 1, a - 1) \o <<"<ul>">> \o SubSeq(s, a, b)
                 \o <<"</ul>">> \o SubSeq(s, b + 1, Len(s))

\* .replace(/\n\n/g, '</p><p>')
RECURSIVE Paragraphs(_, _)
Paragraphs(s, i) ==
  IF i > Len(s) THEN <<>>
  ELSE IF i + 1 <= Len(s) /\ s[i] = "\n" /\ s[i + 1] = "\n"
       THEN <<"</p>", "<p>">> \o Paragraphs(s, i + 2)
       ELSE <<s[i]>> \o Paragraphs(s, i + 1)

\* .replace(/\n/g, '<br>')
LineBreaks(s) == [i \in 1..Len(s) |-> IF s[i] = "\n" THEN "<br>" ELSE s[i]]

\* .replace(/^/g, '<p>').replace(/$/g, '</p>') : no m flag, so once each
WrapParagraph(s) == <<"<p>">> \o s \o <<"</p>">>

\* .replace(/<p><\/p>/g, '')
RECURSIVE DropEmptyParagraphs(_, _)
DropEmptyParagraphs(s, i) ==
  IF i > Len(s) THEN <<>>
  ELSE IF i + 1 <= Len(s) /\ s[i] = "<p>" /\ s[i + 1] = "</p>"
       THEN DropEmptyParagraphs(s, i + 2)
       ELSE <<s[i]>> \o DropEmptyParagraphs(s, i + 1)

markdownToHtml(text) ==
  DropEmptyParagraphs(
    WrapParagraph(
      LineBreaks(
        Paragraphs(
          ListWrap(ListItems(Bold(Headings(text, 1), 1), 1)), 1))), 1)

(***************************************************************************)
(* The page, the user and the backend                                      *)
(***************************************************************************)
Variants == {"escape", "markdown", "legacy"}

\* the two variants whose handler disables the input and has try/finally
TryVariants == {"escape", "markdown"}

\* what the user can have typed into the input
InputTexts == {<<>>, <<" ">>, <<" ", "a", " ">>, <<"<img>">>}

\* caption of the submit button in the page's markup
IdleLabel == "Enviar"

BusyLabel == "Enviando..."

ConnectMessage ==
  <<"No se pudo conectar con el servidor. ¿Está corriendo tu backend?">>

Fallback == <<"Algo salió mal">>

\* data.response and data.error as the backend can send them
Responses == {Str(<<"*", " ", "<img>">>), Undefined}

Errors == {Str(<<"<img>">>), Str(<<>>), Undefined}

InvalidBody ==
  [valid |-> FALSE, success |-> FALSE, response |-> Undefined, error |-> Undefined]

\* the body of a response: not JSON, or an object with success and its field
Bodies ==
  {InvalidBody}
    \cup {[valid |-> TRUE, success |-> TRUE, response |-> r, error |-> Undefined] :
            r \in Responses}
    \cup {[valid |-> TRUE, success |-> FALSE, response |-> Undefined, error |-> e] :
            e \in Errors}

\* JSON.stringify of one turn: a property whose value is undefined is left out
stringifyTurn(turn) ==
  IF turn.text.t = "str" THEN [sender |-> turn.sender, text |-> turn.text.v]
  ELSE [sender |-> turn.sender]

\* JSON.stringify of the history array, as it goes into the request body
stringify(h) == [k \in 1..Len(h) |-> stringifyTurn(h[k])]

Pending(i) == tasks[i].pc # "done"

PendingTasks == {i \in 1..Len(tasks) : Pending(i)}

InitWidget(vs) ==
  /\ variant \in vs
  /\ inputValue = <<>>
  /\ inputDisabled = FALSE
  /\ inputFocused = FALSE
  /\ btnLabel = IdleLabel
  /\ history = <<>>
  /\ chatBox = <<>>
  /\ tasks = <<>>
  /\ ev = [kind |-> "load", task |-> 0]

Init == InitWidget(Variants) /\ mdIn = <<>> /\ mdOut = <<>> /\ mdPc = "off"

InitTry == InitWidget(TryVariants) /\ mdIn = <<>> /\ mdOut = <<>> /\ mdPc = "off"

(***************************************************************************)
(* addMessage(sender, text): the chat box after the call, and whether the  *)
(* call threw before it appended anything                                  *)
(***************************************************************************)
Bubble(sender, html) == [sender |-> sender, html |-> html]

addMessage(box, sender, text) ==
  IF variant = "markdown" /\ sender = "bot"
  THEN IF text.t = "str"
       THEN [threw |-> FALSE,
             box |-> Append(box, Bubble(sender, markdownToHtml(text.v)))]
       ELSE [threw |-> TRUE, box |-> box]
  ELSE [threw |-> FALSE,
        box |-> Append(box, Bubble(sender, escapeHtml(TextContent(text))))]

\* chatBox.innerHTML += `<div>...${text}</div>` of the legacy variant
legacyAppend(box, sender, text) == Append(box, Bubble(sender, text))

(***************************************************************************)
(* The user edits the input; a disabled input cannot be edited             *)
(***************************************************************************)
Type(v) ==
  /\ ~inputDisabled
  /\ v # inputValue
  /\ inputValue' = v
  /\ inputFocused' = TRUE
  /\ UNCHANGED <<variant, inputDisabled, btnLabel, history, chatBox, tasks,
                 ev, mdVars>>

(***************************************************************************)
(* The submit handler up to its first await                                *)
(***************************************************************************)
\* originalText read after the caption was replaced
NewTaskLateCaption(text) ==
  [text |-> text,
   typed |-> inputValue,
   labelBefore |-> btnLabel,
   historyBefore |-> history,
   originalText |-> BusyLabel,
   request |-> [message |-> text, history |-> stringify(history)],
   pc |-> "fetch",
   ok |-> TRUE,
   data |-> InvalidBody,
   result |-> "pending"]

\* the user's turn pushed to history before the request is built
NewTaskTurnPushedEarly(text) ==
  [text |-> text,
   typed |-> inputValue,
   labelBefore |-> btnLabel,
   historyBefore |-> history,
   originalText |-> btnLabel,
   request |-> [message |-> text,
                history |-> stringify(Append(history,
                              [sender |-> "Usuario", text |-> Str(text)]))],
   pc |-> "fetch",
   ok |-> TRUE,
   data |-> InvalidBody,
   result |-> "pending"]

NewTask(text) ==
  [text |-> text,
   typed |-> inputValue,        \* input.value when the event fired
   labelBefore |-> btnLabel,    \* the caption when the event fired
   historyBefore |-> history,   \* history when the event fired
   originalText |-> btnLabel,   \* const originalText = submitBtn.textContent
   request |-> [message |-> text, history |-> stringify(history)],
   pc |-> "fetch",
   ok |-> TRUE,                 \* res.ok, once the fetch has resolved
   data |-> InvalidBody,        \* the parsed body, once there is one
   result |-> "pending"]

\* if (!text) return;
Ignore ==
  /\ ev' = [kind |-> "ignored", task |-> 0]
  /\ UNCHANGED <<inputValue, inputDisabled, btnLabel, history, chatBox, tasks>>

\* the input is neither cleared nor disabled
SendNoDisable(text) ==
  /\ chatBox' = addMessage(chatBox, "user", Str(text)).box
  /\ btnLabel' = BusyLabel
  /\ tasks' = Append(tasks, NewTask(text))
  /\ ev' = [kind |-> "sent", task |-> Len(tasks) + 1]
  /\ UNCHANGED <<history, inputValue, inputDisabled>>

\* the input keeps its text until the reply arrives
SendKeepText(text) ==
  /\ chatBox' = addMessage(chatBox, "user", Str(text)).box
  /\ inputDisabled' = TRUE
  /\ btnLabel' = BusyLabel
  /\ tasks' = Append(tasks, NewTask(text))
  /\ ev' = [kind |-> "sent", task |-> Len(tasks) + 1]
  /\ UNCHANGED <<history, inputValue>>

\* addMessage('user', text) ... fetch(...) of the two try variants
Send(text) ==
  /\ chatBox' = addMessage(chatBox, "user", Str(text)).box
  /\ inputValue' = <<>>
  /\ inputDisabled' = TRUE
  /\ btnLabel' = BusyLabel
  /\ tasks' = Append(tasks, NewTask(text))
  /\ ev' = [kind |-> "sent", task |-> Len(tasks) + 1]
  /\ UNCHANGED history

\* the same stretch of the legacy variant
legacySend(text) ==
  /\ chatBox' = legacyAppend(chatBox, "user", text)
  /\ tasks' = Append(tasks, NewTask(text))
  /\ ev' = [kind |-> "sent", task |-> Len(tasks) + 1]
  /\ UNCHANGED <<inputValue, inputDisabled, btnLabel, history>>

\* a submit event: a click on the button, or Enter in the focused input
Submit(click) ==
  /\ click \/ (inputFocused /\ ~inputDisabled)
  /\ LET text == trim(inputValue)
         sends == text # <<>>
     IN  /\ sends => Len(tasks) < MaxSubmit
         /\ IF ~sends THEN Ignore
            ELSE IF variant = "legacy" THEN legacySend(text)
            ELSE Send(text)
         /\ inputFocused' = (inputFocused /\ ~click
                               /\ ~(sends /\ variant # "legacy"))
  /\ UNCHANGED <<variant, mdVars>>

(***************************************************************************)
(* The handler after its awaits                                            *)
(***************************************************************************)
Finish(i, result, data) ==
  /\ tasks' = [tasks EXCEPT ![i].pc = "done", ![i].result = result,
                            ![i].data = data]
  /\ ev' = [kind |-> result, task |-> i]

\* finally { input.disabled = false; submitBtn.textContent = originalText;
\*           input.focus(); }
Finally(i, result, data) ==
  /\ inputDisabled' = FALSE
  /\ btnLabel' = tasks[i].originalText
  /\ inputFocused' = TRUE
  /\ Finish(i, result, data)

\* the cleanup placed at the end of the try body: a throw skips it
CatchWithoutCleanup(i, data) ==
  /\ chatBox' = addMessage(chatBox, "bot", Str(ConnectMessage)).box
  /\ UNCHANGED <<history, inputValue, inputDisabled, inputFocused, btnLabel>>
  /\ Finish(i, "thrown", data)

\* the catch block only logs the error
CatchSilent(i, data) ==
  /\ UNCHANGED <<chatBox, history, inputValue>>
  /\ Finally(i, "thrown", data)

\* catch (err) { addMessage('bot', "No se pudo conectar ..."); } finally ...
Catch(i, data) ==
  /\ chatBox' = addMessage(chatBox, "bot", Str(ConnectMessage)).box
  /\ UNCHANGED <<history, inputValue>>
  /\ Finally(i, "thrown", data)

\* the legacy handler has no try: the promise it returns is rejected and the
\* rest of the handler does not run
legacyThrow(i, data) ==
  /\ Finish(i, "thrown", data)
  /\ UNCHANGED <<inputValue, inputDisabled, inputFocused, btnLabel, history,
                 chatBox>>

\* the two pushes in the wrong order
TurnsBotFirst(text, response) ==
  <<[sender |-> "Bot", text |-> response],
    [sender |-> "Usuario", text |-> Str(text)]>>

Turns(text, response) ==
  <<[sender |-> "Usuario", text |-> Str(text)],
    [sender |-> "Bot", text |-> response]>>

\* if (data.success) { ... } else { ... } of the two try variants
OnData(i, data) ==
  IF data.success
  THEN LET shown == addMessage(chatBox, "bot", data.response)
       IN  IF shown.threw THEN Catch(i, data)
           ELSE /\ chatBox' = shown.box
                /\ history' = history \o Turns(tasks[i].text, data.response)
                /\ UNCHANGED inputValue
                /\ Finally(i, "success", data)
  ELSE /\ chatBox' = addMessage(chatBox, "bot",
                       Str(<<"Error: ">> \o OrElse(data.error, Fallback).v)).box
       /\ UNCHANGED <<history, inputValue>>
       /\ Finally(i, "backendError", data)

\* the same branch of the legacy variant, then input.value = ""
legacyOnData(i, data) ==
  /\ IF data.success
     THEN /\ chatBox' = legacyAppend(chatBox, "bot", TemplateString(data.response))
          /\ history' = history \o Turns(tasks[i].text, data.response)
     ELSE /\ chatBox' = legacyAppend(chatBox, "bot",
                          <<"Error: ">> \o TemplateString(data.error))
          /\ UNCHANGED history
  /\ inputValue' = <<>>
  /\ Finish(i, IF data.success THEN "success" ELSE "backendError", data)
  /\ UNCHANGED <<inputDisabled, inputFocused, btnLabel>>

\* the fetch promise settles: rejected, or resolved with a 2xx or non-2xx status
FetchSettle(i, outcome) ==
  /\ i \in 1..Len(tasks)
  /\ tasks[i].pc = "fetch"
  /\ IF outcome = "reject"
     THEN IF variant = "legacy" THEN legacyThrow(i, InvalidBody)
          ELSE Catch(i, InvalidBody)
     ELSE IF outcome = "notok" /\ variant # "legacy"
     THEN \* if (!res.ok) throw new Error("Error de red");
          Catch(i, InvalidBody)
     ELSE /\ tasks' = [tasks EXCEPT ![i].pc = "json", ![i].ok = (outcome = "ok")]
          /\ ev' = [kind |-> "response", task |-> i]
          /\ UNCHANGED <<inputValue, inputDisabled, inputFocused, btnLabel,
                         history, chatBox>>
  /\ UNCHANGED <<variant, mdVars>>

\* the res.json() promise settles: rejected (not JSON) or resolved with data
JsonSettle(i, body) ==
  /\ i \in 1..Len(tasks)
  /\ tasks[i].pc = "json"
  /\ IF ~body.valid
     THEN IF variant = "legacy" THEN legacyThrow(i, body) ELSE Catch(i, body)
     ELSE IF variant = "legacy" THEN legacyOnData(i, body)
     ELSE OnData(i, body)
  /\ UNCHANGED <<variant, mdVars>>

Next ==
  \/ \E v \in InputTexts : Type(v)
  \/ \E click \in BOOLEAN : Submit(click)
  \/ \E i \in 1..MaxSubmit, outcome \in {"reject", "ok", "notok"} :
       FetchSettle(i, outcome)
  \/ \E i \in 1..MaxSubmit, body \in Bodies : JsonSettle(i, body)

\* every variant
Spec == Init /\ [][Next]_vars

\* the variants with the disabling try/finally handler
SpecTry == InitTry /\ [][Next]_vars

\* the browser settles every fetch and every body read
Settles ==
  /\ WF_vars(\E i \in 1..MaxSubmit, outcome \in {"reject", "ok", "notok"} :
               FetchSettle(i, outcome))
  /\ WF_vars(\E i \in 1..MaxSubmit, body \in Bodies : JsonSettle(i, body))

\* the try variants, every promise settling
SpecTryLive == InitTry /\ [][Next]_vars /\ Settles

(***************************************************************************)
(* markdownToHtml on its own: the argument is drawn from texts of up to    *)
(* MaxMdLines lines, each a heading, a list item, a line with bold text, a *)
(* plain line or a blank line                                              *)
(***************************************************************************)
HeadingLine == <<"#", "#", "#", " ", "T">>

ItemLine == <<"*", " ", "a">>

BoldLine == <<"*", "*", "b", "*", "*", " ", "t">>

PlainLine == <<"c">>

BlankLine == <<>>

MdLineKinds == {HeadingLine, ItemLine, BoldLine, PlainLine, BlankLine}

\* the lines joined by line feeds
RECURSIVE JoinLines(_)
JoinLines(ls) ==
  IF Len(ls) = 0 THEN <<>>
  ELSE IF Len(ls) = 1 THEN ls[1]
  ELSE ls[1] \o <<"\n">> \o JoinLines(Tail(ls))

MdInputs ==
  UNION {{JoinLines(ls) : ls \in [1..n -> MdLineKinds]} : n \in 1..MaxMdLines}

InitMd ==
  /\ InitWidget({"markdown"})
  /\ mdIn \in MdInputs
  /\ mdOut = <<>>
  /\ mdPc = "in"

Convert ==
  /\ mdPc = "in"
  /\ mdOut' = markdownToHtml(mdIn)
  /\ mdPc' = "out"
  /\ UNCHANGED <<mdIn, widgetVars>>

NextMd == Convert

SpecMd == InitMd /\ [][NextMd]_vars

(***************************************************************************)
(* Vocabulary of the properties                                            *)
(***************************************************************************)
\* handler run i ends in this step
Completes(i) == i \in 1..Len(tasks) /\ Pending(i) /\ tasks'[i].pc = "done"

\* run i got a 2xx response whose JSON body has success = true
SuccessReply(i) == tasks[i].ok /\ tasks[i].data.valid /\ tasks[i].data.success

\* t is raw without its leading and trailing white space
IsTrimOf(t, raw) ==
  /\ t = <<>> \/ (~IsSpace(t[1]) /\ ~IsSpace(t[Len(t)]))
  /\ \E a \in 0..Len(raw) :
       /\ a + Len(t) <= Len(raw)
       /\ SubSeq(raw, a + 1, a + Len(t)) = t
       /\ \A k \in 1..a : IsSpace(raw[k])
       /\ \A k \in (a + Len(t) + 1)..Len(raw) : IsSpace(raw[k])

IsBlank(raw) == \A k \in 1..Len(raw) : IsSpace(raw[k])

\* this step appended {Usuario, trimmed text of run i} then {Bot, response}
AppendsTurnsOf(i) ==
  /\ Len(history') = Len(history) + 2
  /\ SubSeq(history', 1, Len(history)) = history
  /\ history'[Len(history) + 1].sender = "Usuario"
  /\ history'[Len(history) + 1].text.t = "str"
  /\ IsTrimOf(history'[Len(history) + 1].text.v, tasks[i].typed)
  /\ history'[Len(history) + 2] =
       [sender |-> "Bot", text |-> tasks'[i].data.response]

\* tokens that the page would parse as an element
Markup == {"<img>"}

IsLive(html) == \E k \in 1..Len(html) : html[k] \in Markup

C2_FailureKeepsHistory ==
  [][\A i \in 1..Len(tasks) :
       (Completes(i) /\ ~SuccessReply(i)') => history' = tasks[i].historyBefore]_vars

(***************************************************************************)
(* C3: when an exchange has finished, by any branch, the input is enabled  *)
(* and focused and the button shows the caption it had just before the     *)
(* submit; the busy caption is never on the button while the widget is     *)
(* idle.                                                                   *)
(***************************************************************************)
C3_RestoredAfterExchange ==
  [][/\ \A i \in 1..Len(tasks) :
          Completes(i) => /\ ~inputDisabled'
                          /\ inputFocused'
                          /\ btnLabel' = tasks[i].labelBefore
     /\ (PendingTasks' = {}) => (btnLabel' # BusyLabel /\ ~inputDisabled')]_vars

C3_Witness ==
  /\ Len(tasks) = 2
  /\ tasks[1].result = "thrown"
  /\ tasks[2].result = "backendError"
  /\ ~inputDisabled /\ inputFocused /\ btnLabel = IdleLabel

(***************************************************************************)
(* C4: a submit whose input is empty or white space only changes nothing:  *)
(* no bubble, no request, history, the enabled flag and the caption as     *)
(* they were, also while a request is in flight.                           *)
(***************************************************************************)
C4_BlankSubmitIsNoOp ==
  [][(IsBlank(inputValue) /\ \E click \in BOOLEAN : Submit(click))
       => UNCHANGED <<chatBox, tasks, history, inputDisabled, btnLabel,
                      inputValue>>]_vars

C4_Witness ==
  /\ ev.kind = "ignored"
  /\ PendingTasks # {}
  /\ Len(chatBox) = 1

(***************************************************************************)
(* C5: in every variant a bubble that shows the user's text never holds    *)
(* it as live markup.                                                      *)
(***************************************************************************)
C5_UserTextNeverMarkup ==
  \A k \in 1..Len(chatBox) :
    chatBox[k].sender = "user" => ~IsLive(chatBox[k].html)

(***************************************************************************)
(* C6: on every rendering path a bot bubble, whether a reply or an         *)
(* 'Error: ...' message, never holds markup of the backend's text as live  *)
(* markup.                                                                 *)
(***************************************************************************)
C6_BackendTextNeverMarkup ==
  \A k \in 1..Len(chatBox) :
    chatBox[k].sender = "bot" => ~IsLive(chatBox[k].html)

(***************************************************************************)
(* C7: markdownToHtml makes one list item of every line that starts with   *)
(* '* ' and wraps every maximal run of consecutive item lines in exactly   *)
(* one container that holds only those items.                              *)
(***************************************************************************)
RECURSIVE SplitLines(_)
SplitLines(s) ==
  LET k == LineEnd(s, 1)
  IN  IF k > Len(s) THEN <<s>>
      ELSE <<SubSeq(s, 1, k - 1)>> \o SplitLines(SubSeq(s, k + 1, Len(s)))

IsItemLine(l) == Len(l) >= 2 /\ l[1] = "*" /\ l[2] = " "

ItemLines(ls) == {k \in 1..Len(ls) : IsItemLine(ls[k])}

\* the first lines of the maximal runs of item lines
ItemRuns(ls) == {k \in ItemLines(ls) : k = 1 \/ ~IsItemLine(ls[k - 1])}

Positions(s, tok) == {k \in 1..Len(s) : s[k] = tok}

\* c is <li>...</li><li>...</li>... and nothing else
RECURSIVE OnlyItems(_)
OnlyItems(c) ==
  \/ c = <<>>
  \/ /\ c[1] = "<li>"
     /\ Positions(c, "</li>") # {}
     /\ LET e == Min(Positions(c, "</li>"))
        IN  /\ \A k \in 2..(e - 1) : c[k] # "<li>"
            /\ OnlyItems(SubSeq(c, e + 1, Len(c)))

\* the container opened at a closes at b
Container(s, a, b) ==
  /\ s[a] = "<ul>" /\ b > a /\ s[b] = "</ul>"
  /\ \A k \in (a + 1)..(b - 1) : s[k] # "</ul>"

C7_ListRunsWrapped ==
  mdPc = "out" =>
    LET ls == SplitLines(mdIn)
    IN  /\ Cardinality(Positions(mdOut, "<li>")) = Cardinality(ItemLines(ls))
        /\ Cardinality(Positions(mdOut, "<ul>")) = Cardinality(ItemRuns(ls))
        /\ \A a \in Positions(mdOut, "<ul>") :
             \E b \in Positions(mdOut, "</ul>") :
               /\ Container(mdOut, a, b)
               /\ OnlyItems(SubSeq(mdOut, a + 1, b - 1))
        /\ \A k \in Positions(mdOut, "<li>") :
             \E a \in 1..(k - 1), b \in (k + 1)..Len(mdOut) :
               Container(mdOut, a, b)

(***************************************************************************)
(* C8: in the variants that disable the input, at most one request is      *)
(* outstanding in every reachable state.                                   *)
(***************************************************************************)
C8_SingleRequest == Cardinality(PendingTasks) <= 1

C8_Witness ==
  /\ inputDisabled
  /\ ev.kind = "ignored"
  /\ Len(tasks) = 2
  /\ tasks[2].pc = "json"

(***************************************************************************)
(* C9: every entry into the sending state (input disabled, busy caption)   *)
(* is eventually followed by the idle state (input enabled, caption        *)
(* restored), whatever the outcome.                                        *)
(***************************************************************************)
C9_ReturnsToIdle ==
  (inputDisabled /\ btnLabel = BusyLabel)
    ~> (~inputDisabled /\ btnLabel = IdleLabel)

C9_Witness ==
  /\ ev.kind = "thrown"
  /\ ~inputDisabled
  /\ btnLabel = IdleLabel
  /\ \E k \in 1..Len(chatBox) : chatBox[k].sender = "bot"

(***************************************************************************)
(* C10: a submit that passes the guard appends the user bubble and clears  *)
(* the input in the step that issues the request, and leaves history       *)
(* alone; a failure neither removes the bubble nor restores the text;      *)
(* history changes only when a parsed response reports success, by the     *)
(* turns of that message.                                                  *)
(***************************************************************************)
C10_EchoThenCommit ==
  [][/\ Len(tasks') > Len(tasks) =>
          /\ Len(chatBox') = Len(chatBox) + 1
          /\ SubSeq(chatBox', 1, Len(chatBox)) = chatBox
          /\ chatBox'[Len(chatBox')].sender = "user"
          /\ inputValue' = <<>>
          /\ history' = history
          /\ tasks'[Len(tasks')].pc = "fetch"
     /\ \A i \in 1..Len(tasks) :
          (Completes(i) /\ tasks'[i].result # "success") =>
             /\ inputValue' = inputValue
             /\ SubSeq(chatBox', 1, Len(chatBox)) = chatBox
             /\ history' = history
     /\ history' # history =>
          \E i \in 1..Len(tasks) :
             /\ Completes(i)
             /\ tasks[i].pc = "json"
             /\ SuccessReply(i)'
             /\ AppendsTurnsOf(i)]_vars

C10_Witness ==
  /\ ev.kind = "backendError"
  /\ inputValue = <<>>
  /\ history = <<>>
  /\ Len(chatBox) = 2
  /\ chatBox[1].sender = "user"

(***************************************************************************)
(* C11: while a request is in flight the user can type a new message into  *)
(* the input, and that text is still there when the exchange finishes.     *)
(***************************************************************************)
CanType == ENABLED (\E v \in InputTexts : Type(v))

C11_MayTypeWhileSending == (PendingTasks # {}) => CanType

\* C11 as amended: while a request is in flight the input is disabled and
\* empty and accepts no text; it is empty when the exchange finishes, and
\* accepts text again from then on.
C11_NoTypingWhileSending ==
  [][/\ (PendingTasks # {}) => (inputDisabled /\ inputValue = <<>> /\ ~CanType)
     /\ \A i \in 1..Len(tasks) :
          Completes(i) => (inputValue' = <<>> /\ CanType')]_vars

C11_Witness ==
  /\ ev.kind = "response"
  /\ inputDisabled
  /\ inputValue = <<>>
  /\ Len(tasks) = 1

(***************************************************************************)
(* C12: the bot bubble of an exchange is fixed by its outcome: the         *)
(* response text for success = true, 'Error: ' and the error field (or the *)
(* fallback when it is absent or empty) for success = false, the           *)
(* connectivity message for any thrown failure; a non-2xx response is a    *)
(* thrown failure and its body is never parsed.                            *)
(***************************************************************************)
\* the content of a bot bubble that shows text x
RenderedBot(x) ==
  IF variant = "markdown" THEN markdownToHtml(TextContent(x))
  ELSE escapeHtml(TextContent(x))

\* this step appended one bot bubble showing x
ShowsBot(x) ==
  chatBox' = Append(chatBox, [sender |-> "bot", html |-> RenderedBot(x)])

ErrorText(data) ==
  <<"Error: ">> \o (IF data.error.t = "str" /\ data.error.v # <<>>
                    THEN data.error.v ELSE Fallback)

\* the reply of a successful body can be rendered
Renders(data) == variant = "escape" \/ data.response.t = "str"

BubbleOfFailure(i) ==
  IF tasks[i].pc = "fetch" \/ ~tasks'[i].data.valid
  THEN ShowsBot(Str(ConnectMessage))
  ELSE ~tasks'[i].data.success => ShowsBot(Str(ErrorText(tasks'[i].data)))

NeverParsesNon2xx == \A i \in 1..Len(tasks) : tasks[i].pc = "json" => tasks[i].ok

RECURSIVE EarlierTurns(_)
EarlierTurns(n) ==
  IF n = 0 THEN <<>>
  ELSE EarlierTurns(n - 1) \o
         (IF tasks[n].result = "success"
          THEN <<[sender |-> "Usuario", text |-> tasks[n].text]>> \o
               (IF tasks[n].data.response.t = "str"
                THEN <<[sender |-> "Bot", text |-> tasks[n].data.response.v]>>
                ELSE <<[sender |-> "Bot"]>>)
          ELSE <<>>)

C13_RequestCarriesHistory ==
  \A i \in 1..Len(tasks) :
    /\ IsTrimOf(tasks[i].request.message, tasks[i].typed)
    /\ tasks[i].request.message # <<>>
    /\ tasks[i].request.history = EarlierTurns(i - 1)

C13_Witness ==
  /\ Len(tasks) = 2
  /\ tasks[1].result = "success"
  /\ Len(tasks[2].request.history) = 2
  /\ tasks[2].typed # tasks[2].request.message

(***************************************************************************)
(* C14: in every variant and under every interleaving of handler runs,     *)
(* history has even length and is made of adjacent pairs, a "Usuario"      *)
(* entry followed by the "Bot" entry of the same exchange.                 *)
(***************************************************************************)
Succeeded == {i \in 1..Len(tasks) : tasks[i].result = "success"}

\* entries 2p - 1 and 2p are the two turns of run i
PairOf(p, i) ==
  /\ history[2 * p - 1] = [sender |-> "Usuario", text |-> Str(tasks[i].text)]
  /\ history[2 * p] = [sender |-> "Bot", text |-> tasks[i].data.response]

C14_HistoryInPairs ==
  /\ Len(history) = 2 * Cardinality(Succeeded)
  /\ \E f \in [1..Cardinality(Succeeded) -> Succeeded] :
       /\ \A p, q \in DOMAIN f : p # q => f[p] # f[q]
       /\ \A p \in DOMAIN f : PairOf(p, f[p])

C14_Witness ==
  /\ variant = "legacy"
  /\ Len(history) = 4
  /\ PairOf(1, 2)
  /\ PairOf(2, 1)
  /\ tasks[1].text # tasks[2].text

(***************************************************************************)
(* C15: every submit that passes the guard gives exactly one user bubble   *)
(* and, once the widget is idle again, exactly one bot bubble, also when   *)
(* rendering the reply throws inside the try block; so the chat box of an  *)
(* idle widget alternates user, bot, user, bot, ..., and no bubble is ever *)
(* removed or moved.                                                       *)
(***************************************************************************)
Alternates(box) ==
  \A k \in 1..Len(box) :
    box[k].sender = (IF k % 2 = 1 THEN "user" ELSE "bot")

C15_OneBubbleEach ==
  [][/\ SubSeq(chatBox', 1, Len(chatBox)) = chatBox
     /\ Len(chatBox') >= Len(chatBox)
     /\ Alternates(chatBox')
     /\ Len(chatBox') = 2 * Len(tasks') - Cardinality(PendingTasks')]_vars

C15_Witness ==
  /\ variant = "markdown"
  /\ ev.kind = "thrown"
  /\ tasks[ev.task].data.valid
  /\ tasks[ev.task].data.success
  /\ PendingTasks = {}
  /\ Len(chatBox) = 2 * Len(tasks)

(***************************************************************************)
(* C16: in every variant the pairs of history stand in the order in which  *)
(* their messages were submitted, which is the order of the user bubbles.  *)
(***************************************************************************)
\* the texts of the runs among the first n that ended in success, in order
RECURSIVE SucceededTexts(_)
SucceededTexts(n) ==
  IF n = 0 THEN <<>>
  ELSE SucceededTexts(n - 1) \o
         (IF tasks[n].result = "success" THEN <<tasks[n].text>> ELSE <<>>)

\* the texts of the "Usuario" entries of history, in order
UserTextsOfHistory ==
  [p \in 1..(Len(history) \div 2) |-> history[2 * p - 1].text.v]

C16_HistoryInSubmissionOrder ==
  /\ Len(history) % 2 = 0
  /\ UserTextsOfHistory = SucceededTexts(Len(tasks))

====
